---- MODULE Spec2Model ----
(***************************************************************************)
(* Model of the invoice extractor (src/main.py): the Batch Driver `main`,  *)
(* the isolation wrapper `run_child_extract`, the child `child_worker`     *)
(* with the Orchestrator `extract_records_from_pdf_inner`, and the pure    *)
(* normalisation function `norm_num`.                                      *)
(*                                                                         *)
(* Two specifications share the variables:                                 *)
(*   Spec / FairSpec  one batch run of main over a folder of PDFs          *)
(*   SpecNum          norm_num applied to bounded character strings        *)
(***************************************************************************)
EXTENDS Integers, Sequences, FiniteSets, TLC

\* ------------------------------------------------------------------ bounds
\* Largest number of PDFs found by the glob in one run.
MaxDocs == 2
\* Longest character string handed to norm_num.
MaxLen == 5
\* Largest number of rows of a VAT table in a text.
MaxVatRows == 2
\* the most numeric dates in a text
MaxDates == 2

\* ------------------------------------------------------- program constants
\* main.py:887  timeout_s=max(30, int(args.child_timeout_s))
MIN_CHILD_TIMEOUT_S == 30
\* main.py:721  p.join(5)
GRACE_JOIN_S == 5
\* main.py:634  if len(text) < 80
OCR_MIN_TEXT_LEN == 80

VARIABLES
    args,       \* the parsed command line (argparse namespace) and the folder it names
    pc,         \* position of main
    count,      \* main's loop counter: 1-based index of the PDF being processed
    rows,       \* main's aggregated row list
    p,          \* run_child_extract's child process for the current PDF
    q,          \* content of run_child_extract's one-slot queue
    orphans,    \* PDFs whose child is still alive after its call returned
    waited,     \* seconds main has been blocked in p.join for the current PDF
    written,    \* TRUE once df.to_excel has written the output file
    sleeps,     \* the values of count after which time.sleep(throttle) was called
    exported,   \* the rows of the table handed to df.to_excel, in its order
    numPc,      \* position of the norm_num harness
    numIn,      \* the string given to norm_num
    numOut,     \* the value norm_num returned
    fnPc,       \* position of the harness of the other pure functions
    fnIn,       \* the function called and its arguments
    fnOut       \* the value it returned

drv_vars == <<args, pc, count, rows, p, q, orphans, waited, written, sleeps, exported>>
fn_vars == <<fnPc, fnIn, fnOut>>
num_vars == <<numPc, numIn, numOut, fn_vars>>
vars == <<args, pc, count, rows, p, q, orphans, waited, written, sleeps, exported,
          numPc, numIn, numOut, fnPc, fnIn, fnOut>>

Max(a, b) == IF a >= b THEN a ELSE b

Docs == 1..MaxDocs

\* ============================================================ norm_num ===
\* Strings are sequences of one-character strings.  A parsed number is the
\* decimal m / 10^e; ok = FALSE is Python's None.
None == [ok |-> FALSE, m |-> 0, e |-> 0]

Digits == {"0", "1", "2", "3", "4", "5", "6", "7", "8", "9"}

DigitVal(c) ==
    CASE c = "0" -> 0 [] c = "1" -> 1 [] c = "2" -> 2 [] c = "3" -> 3
      [] c = "4" -> 4 [] c = "5" -> 5 [] c = "6" -> 6 [] c = "7" -> 7
      [] c = "8" -> 8 [] c = "9" -> 9

\* `ch in st`
Contains(st, ch) == \E i \in 1..Len(st) : st[i] = ch

\* st.replace(ch, "") for a one-character ch
Remove(st, ch) == SelectSeq(st, LAMBDA c : c # ch)

\* st.replace(old, new) for one-character old and new
ReplaceChar(st, old, new) ==
    [i \in 1..Len(st) |-> IF st[i] = old THEN new ELSE st[i]]

\* st.replace(pat, "") for a pattern of several characters (leftmost first)
RECURSIVE RemoveSub(_, _)
RemoveSub(st, pat) ==
    IF Len(st) < Len(pat) THEN st
    ELSE IF SubSeq(st, 1, Len(pat)) = pat
         THEN RemoveSub(SubSeq(st, Len(pat) + 1, Len(st)), pat)
         ELSE <<st[1]>> \o RemoveSub(Tail(st), pat)

\* st.strip(): blanks off both ends
RECURSIVE Strip(_)
Strip(st) ==
    IF st = <<>> THEN st
    ELSE IF st[1] = " " THEN Strip(Tail(st))
    ELSE IF st[Len(st)] = " " THEN Strip(SubSeq(st, 1, Len(st) - 1))
    ELSE st

RECURSIVE IntOf(_)
IntOf(ds) ==
    IF ds = <<>> THEN 0
    ELSE 10 * IntOf(SubSeq(ds, 1, Len(ds) - 1)) + DigitVal(ds[Len(ds)])

\* the same number without trailing zero decimals
RECURSIVE Normal(_)
Normal(v) ==
    IF v.ok /\ v.e > 0 /\ v.m % 10 = 0
    THEN Normal([ok |-> TRUE, m |-> v.m \div 10, e |-> v.e - 1])
    ELSE v

\* float(st) for a string of digits, "." and other marks: Python accepts digits
\* with at most one "." and at least one digit; anything else raises ValueError.
float(st) ==
    IF /\ \A i \in 1..Len(st) : st[i] \in Digits \cup {"."}
       /\ Cardinality({i \in 1..Len(st) : st[i] = "."}) <= 1
       /\ \E i \in 1..Len(st) : st[i] \in Digits
    THEN LET dot == IF Contains(st, ".")
                    THEN CHOOSE i \in 1..Len(st) : st[i] = "."
                    ELSE Len(st)
         IN  Normal([ok |-> TRUE, m |-> IntOf(Remove(st, ".")), e |-> Len(st) - dot])
    ELSE None

\* main.py:223-228  strip, then drop currency symbols, blanks and "%"
StripSymbols(s) ==
    LET st0 == Strip(s)
        st1 == Remove(st0, "€")
        st2 == RemoveSub(st1, <<"E", "U", "R">>)
        st3 == Remove(st2, " ")
    IN  Remove(st3, "%")

\* main.py:229-232  the separators are rewritten
FixSeparators(st) ==
    IF Contains(st, ",") /\ Contains(st, ".")
    THEN ReplaceChar(Remove(st, "."), ",", ".")
    ELSE IF Contains(st, ",")
         THEN ReplaceChar(st, ",", ".")
         ELSE st

\* main.py:220-236
norm_num(s) ==
    IF Strip(s) = <<>> THEN None
    ELSE float(FixSeparators(StripSymbols(s)))

NumChars == {"1", "2", ",", ".", "%"}
NumStrings == UNION {[1..k -> NumChars] : k \in 0..MaxLen}

\* the harness of the other functions before any call
NoCall == [fn |-> "none"]

\* ====================================================== decimal numbers ===
\* Python floats are modelled as exact decimals m / 10^e with m >= 0 (no text
\* the patterns capture carries a sign).  round() rounds half to even on the
\* exact decimal.
RECURSIVE Pow10(_)
Pow10(n) == IF n = 0 THEN 1 ELSE 10 * Pow10(n - 1)

Dec(m, e) == Normal([ok |-> TRUE, m |-> m, e |-> e])

\* a > b for two numbers
Gt(a, b) ==
    LET e == Max(a.e, b.e)
    IN  a.m * Pow10(e - a.e) > b.m * Pow10(e - b.e)

\* round(v, n)
round(v, n) ==
    IF v.e <= n THEN v
    ELSE LET d  == Pow10(v.e - n)
             qd == v.m \div d
             r  == v.m % d
             up == (2 * r > d) \/ (2 * r = d /\ qd % 2 = 1)
         IN  Dec(IF up THEN qd + 1 ELSE qd, n)

\* v / 100.0
Div100(v) == Dec(v.m, v.e + 2)

One == Dec(1, 0)

\* ======================================================== to_decimal_pct ===
\* main.py:243, 252  (the same expression for a float and for a parsed string)
PctOfValue(val) ==
    IF Gt(val, One) THEN round(Div100(val), 6) ELSE round(val, 6)

\* st[:-1] if st.endswith("%")
DropPercentSuffix(st) ==
    IF Len(st) >= 1 /\ st[Len(st)] = "%" THEN SubSeq(st, 1, Len(st) - 1) ELSE st

\* main.py:239-252 for a string argument
to_decimal_pct(s) ==
    LET st0 == Remove(Strip(s), " ")
        st1 == DropPercentSuffix(st0)
        st2 == ReplaceChar(st1, ",", ".")
        val == float(st2)
    IN  IF val.ok THEN PctOfValue(val) ELSE None

\* main.py:242-243 for a float argument
to_decimal_pct_float(v) == PctOfValue(v)

\* ---------------------------------------------- arithmetic of the parsers ---
Zero == Dec(0, 0)

\* `if v:` for an Optional[float]: neither None nor 0.0
Truthy(v) == v.ok /\ v.m # 0

\* a + b
Add(a, b) ==
    LET e == Max(a.e, b.e)
    IN  Dec(a.m * Pow10(e - a.e) + b.m * Pow10(e - b.e), e)

\* a - b for a >= b
Sub(a, b) ==
    LET e == Max(a.e, b.e)
    IN  Dec(a.m * Pow10(e - a.e) - b.m * Pow10(e - b.e), e)

\* sum(vs) for a list of numbers
RECURSIVE Sum(_)
Sum(vs) == IF vs = <<>> THEN Zero ELSE Add(vs[1], Sum(Tail(vs)))

\* n more decimal digits of the quotient acc + r/d
RECURSIVE DivDigits(_, _, _, _)
DivDigits(acc, r, d, n) ==
    IF n = 0 THEN [q |-> acc, r |-> r]
    ELSE DivDigits(acc * 10 + (r * 10) \div d, (r * 10) % d, d, n - 1)

\* round(a / b, 6) for b > 0
RoundDiv6(a, b) ==
    LET e  == Max(a.e, b.e)
        n  == a.m * Pow10(e - a.e)
        d  == b.m * Pow10(e - b.e)
        dd == DivDigits(n \div d, n % d, d, 6)
        up == (2 * dd.r > d) \/ (2 * dd.r = d /\ dd.q % 2 = 1)
    IN  Dec(IF up THEN dd.q + 1 ELSE dd.q, 6)

\* a * (1.0 + r)
MulOnePlus(a, r) == Dec(a.m * (Pow10(r.e) + r.m), a.e + r.e)

\* float.is_integer() and int()
is_integer(v) == v.e = 0
int(v) == v.m \div Pow10(v.e)

\* ------------------------------------------------- what the patterns capture ---
\* A text is modelled by what the regular expressions of a parser capture in
\* it: NoMatch when a pattern does not match, else the captured characters.
NoMatch == <<"no match">>

S0    == <<"0", ",", "0", "0">>
S21   == <<"2", "1", ",", "0", "0">>
S50   == <<"5", "0", ",", "0", "0">>
S100  == <<"1", "0", "0", ",", "0", "0">>
S121  == <<"1", "2", "1", ",", "0", "0">>
AmountStrs == {S0, S21, S50, S100, S121}
Captures == {NoMatch} \cup AmountStrs

\* What the code makes of a capture: norm_num(m.group(1)) if m else None for
\* an amount, to_decimal_pct(m.group(1)) if m else None for a rate
NumOf(cap, is_rate) ==
    IF cap = NoMatch THEN None
    ELSE IF is_rate THEN to_decimal_pct(cap) ELSE norm_num(cap)

\* the captures of a text that are read as amounts, and as rates
AmountFields == {"base", "iva", "total", "mbase", "miva", "mtotal", "mbase2",
                 "miva2", "mtot2", "mtasa", "cuota"}
RateFields == {"pct", "rate"}

\* The captures c of a text with every amount and rate converted to a number,
\* also those of the rows of the VAT table; the parsers below are written on
\* the converted captures.
Numbers(c) ==
    [k \in DOMAIN c |->
        IF k \in AmountFields \cup RateFields THEN NumOf(c[k], k \in RateFields)
        ELSE IF k = "vat_rows"
        THEN [i \in DOMAIN c[k] |->
                [f \in DOMAIN c[k][i] |-> NumOf(c[k][i][f], f \in RateFields)]]
        ELSE c[k]]

\* the money columns of a row ("%IVA" is written pct_IVA); the parsers' rows
\* also say in total_derived whether importe_total was computed by the parser
\* rather than read in the text
Amounts(base, pct, iva, total) ==
    [importe_base |-> base, pct_IVA |-> pct, IVA |-> iva, importe_total |-> total]

\* The outcome of a call that returns a list of rows, and of one that raises
\* exception e instead.
Ok(res) == [raised |-> "", rows |-> res]
Raises(e) == [raised |-> e, rows |-> <<>>]

\* providers/alcampo.py:53-55 and the same lines of the other vendor parsers
RateFromAmounts(base, iva) ==
    IF Truthy(base) /\ Truthy(iva) THEN RoundDiv6(iva, base) ELSE None

\* providers/alcampo.py:31-57  the amounts of AlcampoParser.parse
AlcampoAmounts(c) ==
    LET base0  == c.mbase
        iva0   == c.miva
        total0 == c.mtotal
        base   == IF ~base0.ok THEN c.mbase2 ELSE base0
        iva    == IF ~iva0.ok THEN c.miva2 ELSE iva0
        total1 == IF ~total0.ok THEN c.mtot2 ELSE total0
        pct    == RateFromAmounts(base, iva)
        fill   == ~total1.ok /\ base.ok /\ iva.ok
        total  == IF fill THEN round(Add(base, iva), 2) ELSE total1
    IN  Amounts(base, pct, iva, total) @@ [total_derived |-> fill]

\* providers/alcampo.py:22-71
AlcampoParse(c) ==
    Ok(<< AlcampoAmounts(c) @@
          [parser |-> "ALCAMPO", empresa |-> "ALCAMPO S.A.", CIF |-> "A28581882",
           Notas |-> <<>>] >>)

\* providers/itv.py:43-52  IVA = total - base - tasa, dropped when negative
ItvIva(base, tasa, total) ==
    IF base.ok /\ total.ok
    THEN LET rest == Add(base, IF tasa.ok THEN tasa ELSE Zero)
         IN  IF Gt(rest, total) THEN None ELSE round(Sub(total, rest), 2)
    ELSE None

\* providers/itv.py:21-94  ItvParser.parse: the service row and the fee row
ItvParse(c) ==
    LET base  == c.mbase
        tasa  == c.mtasa
        total == c.mtotal
        iva   == ItvIva(base, tasa, total)
        pct   == RateFromAmounts(base, iva)
        notas == IF total.ok THEN <<"VARIOS IVAS + TOTAL", total>> ELSE <<"VARIOS IVAS">>
        who   == [parser |-> "ITV", empresa |-> "ARAGONESA DE SERVICIOS ITV, S.A.",
                  CIF |-> "A18096511", Notas |-> notas]
    IN  Ok(<< Amounts(base, pct, iva,
                      IF base.ok /\ iva.ok THEN round(Add(base, iva), 2) ELSE None)
                @@ [total_derived |-> base.ok /\ iva.ok] @@ who,
              Amounts(tasa,
                      IF tasa.ok THEN Zero ELSE None,
                      IF tasa.ok THEN Zero ELSE None,
                      tasa)
                @@ [total_derived |-> FALSE] @@ who >>)

\* providers/o2.py:29-34  the pattern of the tax amount holds the lower-case
\* word "sobre" and is searched in text.upper(): it never matches
O2Iva == None

\* providers/o2.py:22-47  O2Parser.parse
O2Parse(c) ==
    LET base   == c.mbase
        iva    == O2Iva
        total0 == c.mtotal
        pct    == IF Truthy(base) /\ Truthy(iva) THEN Dec(21, 2) ELSE None
        fill   == Truthy(base) /\ Truthy(iva) /\ ~Truthy(total0)
        total  == IF fill THEN round(Add(base, iva), 2) ELSE total0
    IN  Ok(<< Amounts(base, pct, iva, total) @@
              [total_derived |-> fill, parser |-> "O2",
               empresa |-> "TELEFONICA DE ESPANA, S.A.U.",
               CIF |-> "A82018474", Notas |-> <<>>] >>)

\* providers/indusan.py:20-26  the patterns of IndusanParser.parse hold "[^]",
\* which re cannot compile: the first re.search raises re.error
IndusanParse(c) == Raises("re.error")

\* The rows of the VAT table that VAT_ROW_RE matches: rate, base and tax as
\* captured.
VatRow(rate, base, cuota) == [rate |-> rate, base |-> base, cuota |-> cuota]
R21 == VatRow(<<"2", "1">>, S100, S21)
R10 == VatRow(<<"1", "0">>, S50, <<"5", ",", "0", "0">>)
R4  == VatRow(<<"4">>, S100, <<"4", ",", "0", "0">>)
VatRowSet == {R21, R10, R4}
\* the rates captured by the patterns "NN%"
PctCaptures == {NoMatch, <<"2", "1">>, <<"1", "0">>}

\* the rows whose base and tax both parse (providers/generic.py:100-105,
\* main.py:550-556)
ParsedVatRows(vat_rows) ==
    SelectSeq(vat_rows, LAMBDA r : r.base.ok /\ r.cuota.ok)
BasesOf(vat_rows) ==
    LET rs == ParsedVatRows(vat_rows) IN [i \in 1..Len(rs) |-> rs[i].base]
CuotasOf(vat_rows) ==
    LET rs == ParsedVatRows(vat_rows) IN [i \in 1..Len(rs) |-> rs[i].cuota]
\* round(sum(bases), 2), round(sum(cuotas), 2), or None without rows
BaseTbl(vat_rows) ==
    IF ParsedVatRows(vat_rows) = <<>> THEN None ELSE round(Sum(BasesOf(vat_rows)), 2)
IvaTbl(vat_rows) ==
    IF ParsedVatRows(vat_rows) = <<>> THEN None ELSE round(Sum(CuotasOf(vat_rows)), 2)

\* int(iva) in (4, 10, 21) for an integer-valued iva
MisreadRate(iva) == iva.ok /\ is_integer(iva) /\ int(iva) \in {4, 10, 21}

\* providers/generic.py:95-156  GenericParser.parse.  c.base, c.iva and c.total
\* are the numbers _find_value_by_label_smart picks near the labels; c.pct is
\* what NUM_PCT_RE captures.
GenericAmounts(c) ==
    LET base_tbl == BaseTbl(c.vat_rows)
        iva_tbl  == IvaTbl(c.vat_rows)
        pct0 == c.pct
        base == IF base_tbl.ok THEN base_tbl ELSE c.base
        iva0 == IF iva_tbl.ok THEN iva_tbl ELSE c.iva
        tot0 == c.total
        \* generic.py:131-134
        pct1 == IF MisreadRate(iva0) /\ ~pct0.ok THEN Dec(int(iva0), 2) ELSE pct0
        iva  == IF MisreadRate(iva0) THEN None ELSE iva0
        \* generic.py:135-136
        pct  == IF ~pct1.ok /\ Truthy(base) /\ Truthy(iva)
                THEN RoundDiv6(iva, base) ELSE pct1
        \* generic.py:137-138
        fill == ~tot0.ok /\ base.ok /\ iva.ok
        tot1 == IF fill THEN round(Add(base, iva), 2) ELSE tot0
        \* generic.py:139-143
        low  == Truthy(base) /\ Truthy(tot1) /\ Gt(base, tot1)
        tot  == IF low /\ Truthy(pct) THEN round(MulOnePlus(base, pct), 2)
                ELSE IF low /\ Truthy(iva) THEN round(Add(base, iva), 2)
                ELSE tot1
    IN  Amounts(base, pct, iva, tot) @@
        [total_derived |-> fill \/ (low /\ (Truthy(pct) \/ Truthy(iva)))]

\* providers/generic.py:95-156
GenericParse(c) ==
    Ok(<< GenericAmounts(c) @@
          [parser |-> "GENERIC", empresa |-> "", CIF |-> "", Notas |-> <<>>] >>)

\* ------------------------------------------------- main.py's own parsing ---
\* r * 100, and the label f"{int(r * 100)}%" of a rate of n per cent
Times100(r) == IF r.e >= 2 THEN Dec(r.m, r.e - 2) ELSE Dec(r.m * Pow10(2 - r.e), 0)
RateLabel(n) == ToString(n) \o "%"

\* the characters of a non-negative integer, as code points, then the "%" (37)
RECURSIVE DigitCodes(_)
DigitCodes(n) ==
    IF n < 10 THEN <<48 + n>> ELSE Append(DigitCodes(n \div 10), 48 + (n % 10))
LabelCodes(n) == Append(DigitCodes(n), 37)

\* a < b for two strings given by their code points
RECURSIVE LexLess(_, _)
LexLess(a, b) ==
    IF b = <<>> THEN FALSE
    ELSE IF a = <<>> THEN TRUE
    ELSE IF a[1] # b[1] THEN a[1] < b[1]
    ELSE LexLess(Tail(a), Tail(b))

\* the rates of a list, each once, as a set
RateSet(rates) == {rates[i] : i \in 1..Len(rates)}
\* {f"{int(r * 100)}%" for r in rates}, each label given by its number
LabelSet(rates) == {int(Times100(r)) : r \in RateSet(rates)}

\* the orders in which a set can be iterated
Orders(S) ==
    {f \in [1..Cardinality(S) -> S] : \A i, j \in 1..Cardinality(S) : i # j => f[i] # f[j]}

\* variant of sorted: the labels stay in the order of the set's iteration
sorted_Unsorted(rs) == rs

\* sorted(labels) for the labels rs, taken in any order
RECURSIVE sorted(_)
sorted(rs) ==
    IF rs = <<>> THEN <<>>
    ELSE LET least == CHOOSE i \in 1..Len(rs) :
                         \A j \in 1..Len(rs) : ~LexLess(LabelCodes(rs[j]), LabelCodes(rs[i]))
         IN  <<rs[least]>> \o
             sorted(SubSeq(rs, 1, least - 1) \o SubSeq(rs, least + 1, Len(rs)))

\* "+".join(labels)
RECURSIVE JoinLabels(_)
JoinLabels(rs) ==
    IF rs = <<>> THEN ""
    ELSE IF Len(rs) = 1 THEN RateLabel(rs[1])
    ELSE RateLabel(rs[1]) \o "+" \o JoinLabels(Tail(rs))

\* main.py:551, 557-558  the rates of the rows whose base and tax parse
RatesOf(vat_rows) ==
    LET ps == ParsedVatRows(vat_rows)
        rs == [i \in 1..Len(ps) |-> ps[i].rate]
    IN  SelectSeq(rs, LAMBDA r : r.ok)

NoNote == ""

\* main.py:560-564  the note on several rates; ord is the order in which the
\* set of labels is iterated, one of Orders(LabelSet(RatesOf(vat_rows)))
NotaTbl(vat_rows, ord) ==
    IF Cardinality(RateSet(RatesOf(vat_rows))) > 1
    THEN "IVAs: " \o JoinLabels(sorted(ord))
    ELSE NoNote

\* main.py:546-566  parse_vat_rows_sum
parse_vat_rows_sum(vat_rows, ord) ==
    IF ParsedVatRows(vat_rows) # <<>>
    THEN [base |-> BaseTbl(vat_rows), iva |-> IvaTbl(vat_rows),
          nota |-> NotaTbl(vat_rows, ord)]
    ELSE [base |-> None, iva |-> None, nota |-> NoNote]

\* tbl >= v * 0.90
AtLeast90(tbl, v) ==
    LET e == Max(tbl.e, v.e)
    IN  10 * tbl.m * Pow10(e - tbl.e) >= 9 * v.m * Pow10(e - v.e)

\* main.py:594-597  the table value replaces the label value
Consolidate(tbl, v) ==
    IF tbl.ok /\ (~v.ok \/ (Truthy(v) /\ AtLeast90(tbl, v))) THEN tbl ELSE v

\* main.py:569-607  parse_amounts_generic.  c.base, c.iva and c.total are what
\* _find_value_by_label_patterns finds near the labels, c.pct is the rate of
\* a label "IVA NN%".
parse_amounts_generic(c, ord) ==
    LET tbl  == parse_vat_rows_sum(c.vat_rows, ord)
        pct  == c.pct
        base == Consolidate(tbl.base, c.base)
        iva  == Consolidate(tbl.iva, c.iva)
        tot0 == c.total
        fill == ~tot0.ok /\ base.ok /\ iva.ok
        tot  == IF fill THEN round(Add(base, iva), 2) ELSE tot0
    IN  Amounts(base, pct, iva, tot) @@ [total_derived |-> fill]

\* ================================================================ rows ===
\* A row is a dict; `doc` is a ghost field naming the PDF the row was made for.
\* numero_factura: "name" is Path.name (with extension), "stem" is Path.stem,
\* "number" is an invoice number found in the text.
\* Notas is the list of parts that the code joins with "; ".

\* main.py:724
TimeoutRow(d, timeout_s) ==
    [doc |-> d, numero_factura |-> "name",
     Notas |-> <<"Timeout " \o ToString(timeout_s) \o "s">>]

\* main.py:729
NoDataRow(d) ==
    [doc |-> d, numero_factura |-> "name", Notas |-> <<"Sin datos del hijo">>]

\* main.py:622-624
ErrorRow(d) ==
    [doc |-> d, numero_factura |-> "name", Notas |-> <<"Error: e">>]

\* ====================================================== the Orchestrator ===
\* A PDF as the extraction sees it: the length of its native text, the length
\* of the text OCR yields for it (0 after an OCR failure), whether an invoice
\* number is found in the text, and whether the field parsing raises.
NativeLens == {10, 80}
OcrLens == {0, 200}

\* variant of NeedsOcr: the OCR is tried only for an empty native text
NeedsOcr_OnlyEmpty(native_len) == native_len = 0

\* main.py:634
NeedsOcr(native_len) == native_len < OCR_MIN_TEXT_LEN

\* fecha_factura is the ISO date "YYYY-MM-DD" as <<year, month, day>>, NoDate
\* where parse_date_text found none
NoDate == <<>>

\* The sample PDFs whose text holds an invoice number hold a date too: the
\* scanned ones all bear the same date, the others a date of their own that is
\* earlier the later the file comes in the directory.
SampleDate(d, ocr_used) == IF ocr_used THEN <<2024, 1, 5>> ELSE <<2023, 12 - d, 28>>

\* main.py:628-695  the rows extract_records_from_pdf_inner returns, and
\* whether it called read_pdf_text_ocr on the way.
extract_records_from_pdf_inner(d, native_len, ocr_len, has_number) ==
    LET ocr_used == NeedsOcr(native_len)
        text_len == IF ocr_used THEN ocr_len ELSE native_len
        notas_parts == IF ocr_used THEN <<"OCR">> ELSE <<>>
    IN  [ocr_called |-> ocr_used,
         text_len   |-> text_len,
         res |-> << [doc |-> d,
                     fecha_factura |-> IF has_number THEN SampleDate(d, ocr_used)
                                       ELSE NoDate,
                     numero_factura |-> IF has_number THEN "number" ELSE "stem",
                     Notas |-> notas_parts] >>]

\* ============================================================ the queue ===
EmptyQ == [kind |-> "empty", data |-> <<>>, big |-> FALSE]
\* json.dumps(res) put on the queue; `big` says the message exceeds the pipe buffer
JsonMsg(res, big) == [kind |-> "json", data |-> res, big |-> big]
\* a message cut short by the death of the child while its feeder thread wrote it
CorruptMsg == [kind |-> "corrupt", data |-> <<>>, big |-> FALSE]

\* ======================================================== child process ===
\* p is the Process object of the run_child_extract call in progress, with the
\* facts of its extraction: the native text length it read, the text length it
\* went on with (-1 while no text was read), whether it called
\* read_pdf_text_ocr, whether it raised.
Unborn ==
    [st |-> "unborn", native_len |-> -1, text_len |-> -1,
     ocr_called |-> FALSE, raised |-> FALSE]

AliveStates == {"running", "flushing"}
\* the process of the call in progress exists and has not ended
Alive == p.st \in AliveStates
\* variant of is_alive: the check after the join is left out
is_alive_Skipped == FALSE

\* main.py:718  p.is_alive()
is_alive == p.st \in AliveStates

\* main.py:887
timeout_s == Max(MIN_CHILD_TIMEOUT_S, args.child_timeout_s)

\* main.py:614-621  child_worker: the extraction returns and its result is put
ChildExtractOk ==
    /\ p.st = "running"
    /\ \E native_len \in NativeLens, ocr_len \in OcrLens,
          has_number \in BOOLEAN, big \in BOOLEAN :
          LET r == extract_records_from_pdf_inner(count, native_len, ocr_len, has_number)
          IN  /\ p' = [st |-> "flushing",
                       native_len |-> native_len,
                       text_len |-> r.text_len,
                       ocr_called |-> r.ocr_called,
                       raised |-> FALSE]
              /\ q' = JsonMsg(r.res, big)
    /\ UNCHANGED <<args, pc, count, rows, orphans, waited, written, sleeps, exported>>
    /\ UNCHANGED num_vars

\* variant of ErrorMsg: the handler puts an empty list
ErrorMsg_Empty(d) == JsonMsg(<<>>, FALSE)

\* main.py:622-624  what the handler of child_worker puts on the queue
ErrorMsg(d) == JsonMsg(<<ErrorRow(d)>>, FALSE)

\* main.py:622-624  child_worker: the extraction raises after the text was
\* acquired, and the error row is put
ChildExtractRaises ==
    /\ p.st = "running"
    /\ \E native_len \in NativeLens, ocr_len \in OcrLens :
          LET r == extract_records_from_pdf_inner(count, native_len, ocr_len, FALSE)
          IN  p' = [st |-> "flushing",
                    native_len |-> native_len,
                    text_len |-> r.text_len,
                    ocr_called |-> r.ocr_called,
                    raised |-> TRUE]
    /\ q' = ErrorMsg(count)
    /\ UNCHANGED <<args, pc, count, rows, orphans, waited, written, sleeps, exported>>
    /\ UNCHANGED num_vars

\* A child whose message fits the pipe buffer ends once child_worker returned;
\* one whose message does not fit ends only after the message was read.
CanExit == ~q.big

\* the child process ends normally
ChildExit ==
    /\ p.st = "flushing"
    /\ CanExit
    /\ p' = [p EXCEPT !.st = "exited"]
    /\ UNCHANGED <<args, pc, count, rows, q, orphans, waited, written, sleeps, exported>>
    /\ UNCHANGED num_vars

\* the child process dies (crash in a native library, kill, SIGTERM taking
\* effect late); a message still being written is lost or cut short.
ChildDies ==
    /\ Alive
    /\ p' = [p EXCEPT !.st = "dead"]
    /\ \E m \in {q, EmptyQ, CorruptMsg} :
          /\ (p.st = "running" => m = q)
          /\ q' = m
    /\ UNCHANGED <<args, pc, count, rows, orphans, waited, written, sleeps, exported>>
    /\ UNCHANGED num_vars

\* A child that outlived its run_child_extract call ends at last (it finishes,
\* putting its result on a queue nobody holds any more, or dies).
OrphanEnds(d) ==
    /\ d \in orphans
    /\ orphans' = orphans \ {d}
    /\ UNCHANGED <<args, pc, count, rows, p, q, waited, written, sleeps, exported>>
    /\ UNCHANGED num_vars

\* ================================================================= main ===
TimeoutArgs == {1, 35}
ThrottleArgs == {<<0, 800>>, <<1, 800>>, <<2, 800>>, <<1, -1>>}

ArgsSet ==
    [input : {"missing", "file", "dir"},
     npdfs : 0..MaxDocs,
     ocr : {"on", "off"},
     throttle : ThrottleArgs,
     child_timeout_s : TimeoutArgs]

\* main.py:859-860
BadInputDir == args.input # "dir"

\* main.py:859-863
CheckInputDir ==
    /\ pc = "start"
    /\ pc' = IF BadInputDir THEN "sysexit" ELSE "glob"
    /\ UNCHANGED <<args, count, rows, p, q, orphans, waited, written, sleeps, exported>>
    /\ UNCHANGED num_vars

\* main.py:870-876
GlobPdfs ==
    /\ pc = "glob"
    /\ IF args.npdfs = 0
       THEN pc' = "sysexit" /\ UNCHANGED <<rows, count>>
       ELSE pc' = "loop" /\ rows' = <<>> /\ count' = 0
    /\ UNCHANGED <<args, p, q, orphans, waited, written, sleeps, exported>>
    /\ UNCHANGED num_vars

\* main.py:877-878  for p in pdfs: count += 1.  Nothing of the previous call
\* of run_child_extract is left.
LoopNext ==
    /\ pc = "loop"
    /\ IF count < args.npdfs
       THEN pc' = "spawn" /\ count' = count + 1
       ELSE pc' = "export" /\ count' = count
    /\ p' = Unborn
    /\ q' = EmptyQ
    /\ UNCHANGED <<args, rows, orphans, waited, written, sleeps, exported>>
    /\ UNCHANGED num_vars

\* main.py:710-717  the queue is created, the child started, the join begins
StartChild ==
    /\ pc = "spawn"
    /\ p' = [Unborn EXCEPT !.st = "running"]
    /\ q' = EmptyQ
    /\ waited' = 0
    /\ pc' = "join"
    /\ UNCHANGED <<args, count, rows, orphans, written, sleeps, exported>>
    /\ UNCHANGED num_vars

\* main.py:710-716, 890-891  mp.Queue() or p.start() raises (no process, no
\* descriptor left): the exception leaves run_child_extract and main's
\* handler logs it.
StartChildRaises ==
    /\ pc = "spawn"
    /\ pc' = "throttle"
    /\ UNCHANGED <<args, count, rows, p, q, orphans, waited, written, sleeps, exported>>
    /\ UNCHANGED num_vars

\* main.py:717  p.join(timeout_s): the timeout elapses with the child alive
JoinTimesOut ==
    /\ pc = "join"
    /\ Alive
    /\ waited < timeout_s
    /\ waited' = timeout_s
    /\ UNCHANGED <<args, pc, count, rows, p, q, orphans, written, sleeps, exported>>
    /\ UNCHANGED num_vars

\* variant of JoinDone: p.join() without a timeout
JoinDone_NoTimeout == ~Alive

\* main.py:717  p.join(timeout_s) returns: the child ended or the time is up
JoinDone == ~Alive \/ waited >= timeout_s

\* main.py:717
JoinReturns ==
    /\ pc = "join"
    /\ JoinDone
    /\ pc' = "is_alive"
    /\ UNCHANGED <<args, count, rows, p, q, orphans, waited, written, sleeps, exported>>
    /\ UNCHANGED num_vars

\* main.py:718
CheckAlive ==
    /\ pc = "is_alive"
    /\ pc' = IF is_alive THEN "terminate" ELSE "read"
    /\ UNCHANGED <<args, count, rows, p, q, orphans, waited, written, sleeps, exported>>
    /\ UNCHANGED num_vars

\* main.py:720  p.terminate(): the signal ends the child at once, or not yet
Terminate ==
    /\ pc = "terminate"
    /\ \/ p' = p
       \/ Alive /\ p' = [p EXCEPT !.st = "dead"]
    /\ pc' = "grace"
    /\ UNCHANGED <<args, count, rows, q, orphans, waited, written, sleeps, exported>>
    /\ UNCHANGED num_vars

\* main.py:721  p.join(5): the grace time elapses with the child alive
GraceTimesOut ==
    /\ pc = "grace"
    /\ Alive
    /\ waited < timeout_s + GRACE_JOIN_S
    /\ waited' = timeout_s + GRACE_JOIN_S
    /\ UNCHANGED <<args, pc, count, rows, p, q, orphans, written, sleeps, exported>>
    /\ UNCHANGED num_vars

\* main.py:721  p.join(5) returns
GraceDone == ~Alive \/ waited >= timeout_s + GRACE_JOIN_S

\* run_child_extract returns recs and main extends rows with them (main.py:889).
\* A child still alive lives on outside the call: it is an orphan from here on.
\* q_after is what the call leaves on its queue.
ReturnRows(recs, q_after) ==
    /\ rows' = rows \o recs
    /\ orphans' = IF Alive THEN orphans \cup {count} ELSE orphans
    /\ p' = IF Alive THEN [p EXCEPT !.st = "orphaned"] ELSE p
    /\ q' = q_after
    /\ pc' = "throttle"

\* variant of TimeoutResult: a result found on the queue is returned as well
TimeoutResult_Merged(m, d, t) ==
    IF m.kind = "json" THEN m.data \o <<TimeoutRow(d, t)>> ELSE <<TimeoutRow(d, t)>>

\* main.py:724  the value returned on the timeout path; the queue m is not read
TimeoutResult(m, d, t) == <<TimeoutRow(d, t)>>

\* main.py:721-724
ReturnTimeout ==
    /\ pc = "grace"
    /\ GraceDone
    /\ ReturnRows(TimeoutResult(q, count, timeout_s), q)
    /\ UNCHANGED <<args, count, waited, written, sleeps, exported>>
    /\ UNCHANGED num_vars

\* main.py:720-724  p.terminate() raises: the handler passes, the timeout row
\* is returned without the grace join
TerminateRaises ==
    /\ pc = "terminate"
    /\ ReturnRows(TimeoutResult(q, count, timeout_s), q)
    /\ UNCHANGED <<args, count, waited, written, sleeps, exported>>
    /\ UNCHANGED num_vars

\* variant of ReadResult: an empty list is returned when nothing can be read
ReadResult_EmptyList(m, d) ==
    IF m.kind = "json" THEN m.data ELSE <<>>

\* main.py:725-729  q.get_nowait() and json.loads, or the no-data row
ReadResult(m, d) ==
    IF m.kind = "json" THEN m.data ELSE <<NoDataRow(d)>>

\* main.py:725-729
ReadQueue ==
    /\ pc = "read"
    /\ ReturnRows(ReadResult(q, count), EmptyQ)
    /\ UNCHANGED <<args, count, waited, written, sleeps, exported>>
    /\ UNCHANGED num_vars

\* variant of ThrottleDue: the pause is due after every document
ThrottleDue_EveryDocument ==
    /\ args.throttle[1] # 0
    /\ args.throttle[2] # 0

\* main.py:892-896
ThrottleDue ==
    /\ args.throttle[1] # 0
    /\ args.throttle[2] # 0
    /\ count % args.throttle[1] = 0

\* main.py:892-899  time.sleep raises ValueError on a negative length, outside
\* the try of the loop body
Throttle ==
    /\ pc = "throttle"
    /\ IF ThrottleDue
       THEN IF args.throttle[2] < 0
            THEN pc' = "crashed" /\ sleeps' = sleeps
            ELSE pc' = "loop" /\ sleeps' = Append(sleeps, count)
       ELSE pc' = "loop" /\ sleeps' = sleeps
    /\ UNCHANGED <<args, count, rows, p, q, orphans, waited, written, exported>>
    /\ UNCHANGED num_vars

\* ------------------------------------------------------- the export ---
\* the text of the column numero_factura, as code points: the files of the
\* input directory are d1.pdf, d2.pdf, ...; the invoice number found in the
\* text of file d is "F" followed by the digit 9 - d
Stem(d) == <<100, 48 + d>>
Name(d) == <<100, 48 + d, 46, 112, 100, 102>>
InvoiceNumber(d) == <<70, 57 - d>>
NumberText(r) ==
    CASE r.numero_factura = "name" -> Name(r.doc)
      [] r.numero_factura = "stem" -> Stem(r.doc)
      [] OTHER -> InvoiceNumber(r.doc)

\* main.py:902-914  the cell of column fecha_factura: a row without the key
\* has a missing value there
DateOf(r) == IF "fecha_factura" \in DOMAIN r THEN r.fecha_factura ELSE NoDate

IsLeap(y) == y % 4 = 0 /\ (y % 100 # 0 \/ y % 400 = 0)
DaysIn(y, m) ==
    IF m = 2 THEN (IF IsLeap(y) THEN 29 ELSE 28)
    ELSE IF m \in {4, 6, 9, 11} THEN 30 ELSE 31

NaT == <<>>
\* main.py:916  pd.to_datetime(..., errors="coerce"): a missing value or a
\* string that is no date of the calendar becomes NaT
to_datetime(f) ==
    IF f # NoDate /\ f[2] \in 1..12 /\ f[3] \in 1..DaysIn(f[1], f[2]) THEN f ELSE NaT

\* main.py:917  the order of two rows by (fecha_sort, numero_factura): the
\* earlier date first and NaT after every date, then the smaller number text
SortsBefore(a, b) ==
    LET fa == to_datetime(DateOf(a))
        fb == to_datetime(DateOf(b))
    IN  IF fa # fb
        THEN fb = NaT \/ (fa # NaT /\ LexLess(fa, fb))
        ELSE LexLess(NumberText(a), NumberText(b))

\* variant of sort_values: the rows stay in the order of their collection
sort_values_Unsorted(rs) == rs

\* main.py:917  df.sort_values(["fecha_sort", "numero_factura"]): ascending,
\* missing values last, rows with equal keys in their former order
sort_values(rs) ==
    LET n == Len(rs)
        \* row j comes before row i in the sorted table
        Before(j, i) ==
            IF j < i THEN ~SortsBefore(rs[i], rs[j]) ELSE SortsBefore(rs[j], rs[i])
        Rank(i) == 1 + Cardinality({j \in (1..n) \ {i} : Before(j, i)})
    IN  [k \in 1..n |-> rs[CHOOSE i \in 1..n : Rank(i) = k]]

\* main.py:901-926  the table is built from the rows, sorted and written
Export ==
    /\ pc = "export"
    /\ pc' = "done"
    /\ written' = TRUE
    /\ UNCHANGED <<args, count, rows, p, q, orphans, waited, sleeps>>
    /\ UNCHANGED num_vars
    /\ exported' = sort_values(rows)

Init ==
    /\ args \in ArgsSet
    /\ (args.input # "dir" => args.npdfs = 0)
    /\ pc = "start"
    /\ count = 0
    /\ rows = <<>>
    /\ p = Unborn
    /\ q = EmptyQ
    /\ orphans = {}
    /\ waited = 0
    /\ written = FALSE
    /\ sleeps = <<>>
    /\ exported = <<>>
    /\ numPc = "off"
    /\ numIn = <<>>
    /\ numOut = None
    /\ fnPc = "off"
    /\ fnIn = NoCall
    /\ fnOut = None

MainStep ==
    \/ CheckInputDir
    \/ GlobPdfs
    \/ LoopNext
    \/ StartChild
    \/ StartChildRaises
    \/ JoinTimesOut
    \/ JoinReturns
    \/ CheckAlive
    \/ Terminate
    \/ TerminateRaises
    \/ GraceTimesOut
    \/ ReturnTimeout
    \/ ReadQueue
    \/ Throttle
    \/ Export

ChildStep ==
    \/ ChildExtractOk
    \/ ChildExtractRaises
    \/ ChildExit
    \/ ChildDies
    \/ \E d \in Docs : OrphanEnds(d)

Next == MainStep \/ ChildStep

Spec == Init /\ [][Next]_vars

\* main is not starved and the clock of its joins advances; a child may hang.
FairSpec == Spec /\ WF_vars(MainStep)

\* ------------------------------------------------- norm_num on its own ---
\* the folder and command line of a run that is not started
NoRun ==
    [input |-> "missing", npdfs |-> 0, ocr |-> "on",
     throttle |-> <<0, 800>>, child_timeout_s |-> 1]

InitNum ==
    /\ args = NoRun
    /\ pc = "off"
    /\ count = 0
    /\ rows = <<>>
    /\ p = Unborn
    /\ q = EmptyQ
    /\ orphans = {}
    /\ waited = 0
    /\ written = FALSE
    /\ sleeps = <<>>
    /\ exported = <<>>
    /\ numPc = "call"
    /\ numIn \in NumStrings
    /\ numOut = None
    /\ fnPc = "off"
    /\ fnIn = NoCall
    /\ fnOut = None

\* main.py:220-236  one call of norm_num
NormNumCall ==
    /\ numPc = "call"
    /\ numOut' = norm_num(numIn)
    /\ numPc' = "returned"
    /\ UNCHANGED numIn
    /\ UNCHANGED drv_vars
    /\ UNCHANGED fn_vars

NextNum == NormNumCall

SpecNum == InitNum /\ [][NextNum]_vars

\* ----------------------------------------------- supplier identity ---
\* a missing string (Python's None where a str is expected)
NoneStr == "None"

\* main.py:68-105  the patterns are named by their source text; a text is
\* described by the set of patterns that match it
VENDOR_OVERRIDES ==
    << [pat |-> "LEROY\\s+MERLIN", name |-> "LEROY MERLIN ESPANA, S.L.U.",
        cif_fix |-> "B84818442"],
       [pat |-> "\\bALCAMPO\\b", name |-> "ALCAMPO S.A.", cif_fix |-> "A28581882"],
       [pat |-> "REPSOL\\s+SOLUCIONES\\s+ENERGETIC",
        name |-> "REPSOL SOLUCIONES ENERGETICAS, S.A.", cif_fix |-> "A80298839"],
       [pat |-> "NORAUTO|NOROTO", name |-> "NOROTO S.A.U.", cif_fix |-> "A78119773"],
       [pat |-> "SALVADOR\\s+ESCODA", name |-> "SALVADOR ESCODA S.A.",
        cif_fix |-> "A08710006"],
       [pat |-> "REMLE", name |-> "REMLE S.A.", cif_fix |-> "A08388811"],
       [pat |-> "AMAZON", name |-> "AMAZON (ver detalle en factura)",
        cif_fix |-> NoneStr],
       [pat |-> "SHENZHEN\\s+GAOCHENG",
        name |-> "SHENZHEN GAOCHENG ELECTRONIC COMMERCE CO., LTD.",
        cif_fix |-> "ESN0050580J"],
       [pat |-> "CREATORS\\s+OF\\s+TOMORROW|WIESEMANN",
        name |-> "CREATORS OF TOMORROW GMBH", cif_fix |-> "N27643081"],
       [pat |-> "ARAGONESA\\s+DE\\s+SERVICIOS\\s+ITV",
        name |-> "ARAGONESA DE SERVICIOS ITV, S.A.", cif_fix |-> NoneStr],
       [pat |-> "INDUSTRIAS\\s+REUNIDAS\\s+SANITARIAS|INDUSAN",
        name |-> "INDUSTRIAS REUNIDAS SANITARIAS S.L.", cif_fix |-> "B50040005"],
       [pat |-> "GASOLEOS\\s+MERCADAIZ|VIUDA\\s+DE\\s+LONDAIZ",
        name |-> "VIUDA DE LONDAIZ Y SOBRINOS DE L. MERCADER, S.A.",
        cif_fix |-> "A20004008"] >>

\* main.py:108-119
KNOWN_VATS_BY_BRAND ==
    [AMAZON |-> {"ESN0186600C", "ESW0264006H", "DE814584193", "FR12487773327",
                 "IT08973230967", "ESW0184081H", "PL5262907815"}]

\* the tax IDs of the sample texts, with the first character of each
FirstChar ==
    [B12345678 |-> "B", A28581882 |-> "A", X1234567L |-> "X",
     ESW0264006H |-> "E", PL5262907815 |-> "P", LU20260743 |-> "L",
     IT00000000001 |-> "I", DE123456789 |-> "D"]

SampleIds == DOMAIN FirstChar

\* main.py:339-343  the sample IDs that a pattern of ES_VAT_PATTERNS matches
\* (company CIF, NIE); the others are matched by EU_VAT_GENERIC only
LocalShapeIds == {"B12345678", "A28581882", "X1234567L"}

\* main.py:412  re.match(r"^[A-HJNPQRSUVW]", v)
CifLetters == {"A", "B", "C", "D", "E", "F", "G", "H", "J", "N", "P", "Q", "R",
               "S", "U", "V", "W"}

\* main.py:410-413  the sort key of a candidate
ShapeKey(v) == IF FirstChar[v] \in CifLetters THEN 2 ELSE 1

\* main.py:410-413  vats.sort(key=..., reverse=True): stable, larger key first
SortByShape(vats) ==
    SelectSeq(vats, LAMBDA v : ShapeKey(v) = 2)
        \o SelectSeq(vats, LAMBDA v : ShapeKey(v) = 1)

\* main.py:379-383  the brand named in the text; the pattern "AMAZON" of the
\* overrides and the brand key "AMAZON" match the same texts
detect_brand(marks) == IF "AMAZON" \in marks THEN "AMAZON" ELSE NoneStr

\* main.py:391-395  the first override whose pattern matches, 0 when none does
FirstOverride(marks) ==
    IF \E i \in 1..Len(VENDOR_OVERRIDES) : VENDOR_OVERRIDES[i].pat \in marks
    THEN CHOOSE i \in 1..Len(VENDOR_OVERRIDES) :
            /\ VENDOR_OVERRIDES[i].pat \in marks
            /\ \A j \in 1..(i - 1) : VENDOR_OVERRIDES[j].pat \notin marks
    ELSE 0

\* main.py:398-414  the tax ID chosen among the candidates of the text
SelectVat(marks, vats) ==
    LET brand     == detect_brand(marks)
        preferred == IF brand # NoneStr
                     THEN SelectSeq(vats, LAMBDA v : v \in KNOWN_VATS_BY_BRAND[brand])
                     ELSE <<>>
    IN  IF preferred # <<>> THEN preferred[1]
        ELSE IF vats # <<>> THEN SortByShape(vats)[1]
        ELSE NoneStr

\* the override decides the name but not the ID
find_company_NameOnly(t) ==
    LET o == FirstOverride(t.marks)
    IN  [company      |-> IF o # 0 THEN VENDOR_OVERRIDES[o].name ELSE t.line,
         supplier_vat |-> SelectVat(t.marks, t.vats)]

\* main.py:386-458  t.marks: the override patterns matching the text, t.vats:
\* what find_vat_candidates returns, t.line: the first clean company line
find_company(t) ==
    LET o == FirstOverride(t.marks)
    IN  [company      |-> IF o # 0 THEN VENDOR_OVERRIDES[o].name ELSE t.line,
         supplier_vat |-> IF o # 0 /\ VENDOR_OVERRIDES[o].cif_fix # NoneStr
                          THEN VENDOR_OVERRIDES[o].cif_fix
                          ELSE SelectVat(t.marks, t.vats)]

\* the override patterns matching the sample texts
MarkSets ==
    {{}, {"AMAZON"}, {"LEROY\\s+MERLIN"}, {"\\bALCAMPO\\b", "AMAZON"},
     {"ARAGONESA\\s+DE\\s+SERVICIOS\\s+ITV"}, {"REMLE", "AMAZON"}}

\* main.py:357-376  the candidates of a text: distinct IDs in the order found
VatLists ==
    {vs \in UNION {[1..k -> SampleIds] : k \in 0..2} :
        \A i, j \in 1..Len(vs) : i # j => vs[i] # vs[j]}

\* main.py:435-449  the company line read in the sample texts
CompanyLines == {NoneStr, "ACME SL"}

\* ------------------------------------------------- parser dispatch ---
\* providers/__init__.py:13-24  the parsers in detection order, each with the
\* keywords its detect looks for in text.upper()
PROVIDERS ==
    << [name |-> "ALCAMPO",
        keys |-> {"ALCAMPO S.A", "FAT ALCAMPO", "HIPERMERCADO UTEBO"}],
       [name |-> "INDUSAN", keys |-> {"INDUSTRIAS REUNIDAS SANITARIAS", "INDUSAN"}],
       [name |-> "ITV", keys |-> {"ARAGONESA DE SERVICIOS ITV", "SERVICIOS ITV, S.A."}],
       [name |-> "MERCADAIZ", keys |-> {"VIUDA DE LONDAIZ", "GASOLEOS MERCADAIZ"}],
       [name |-> "O2", keys |-> {"TELEFONICA DE ESPANA", "FACTURA NUM", "O2"}],
       [name |-> "REPSOL",
        keys |-> {"REPSOL SOLUCIONES ENERGETICAS", "TOTAL FACTURA EUROS"}],
       [name |-> "SORPRESA", keys |-> {"SORPRESA HOGAR", "XIAOJIE WANG"}],
       [name |-> "SUPERCONTABLE",
        keys |-> {"SUPERCONTABLE", "RCR PROYECTOS DE SOFTWARE"}],
       [name |-> "GENERIC", keys |-> {}] >>

\* the detect method of a parser, kw being the keywords the text holds;
\* providers/generic.py:37-38 returns True for every text
detect(prov, kw) ==
    IF prov.name = "GENERIC" THEN TRUE ELSE prov.keys \cap kw # {}

\* the first parser of PROVIDERS whose detect is true
FirstDetecting(kw) ==
    PROVIDERS[CHOOSE i \in 1..Len(PROVIDERS) :
                 /\ detect(PROVIDERS[i], kw)
                 /\ \A j \in 1..(i - 1) : ~detect(PROVIDERS[j], kw)].name

\* ------------------------------------------------ the extracted row ---
\* main.py:204-211  strip_accents_punct on the names of the sample texts:
\* the parentheses become spaces and runs of spaces collapse
strip_accents_punct(s) ==
    IF s = "AMAZON (ver detalle en factura)" THEN "AMAZON ver detalle en factura"
    ELSE s

\* main.py:214-217  norm_cif on the IDs of the sample texts, which hold only
\* upper-case letters and digits
norm_cif(s) == s

\* main.py:664-667
NoteNotVisible(brand) == "VAT Amazon no visible en documento (no forzado)"
\* main.py:669-675
NoteNotInCatalog(cif, brand) ==
    "VAT " \o cif \o " no coincide con catalogo " \o brand \o " (revisar)"

\* main.py:645-695  the row extract_records_from_pdf_inner builds from the
\* text t: its amounts come from main.py's own parse_amounts_generic, its
\* vendor from find_company; ord is the order in which this run iterates the
\* set of rate labels.  `parser` names the code that parsed the amounts.
extract_fields(t, ord) ==
    LET who   == find_company(t)
        cif   == who.supplier_vat
        am    == parse_amounts_generic(t, ord)
        brand == detect_brand(t.marks)
        nota_tbl == parse_vat_rows_sum(t.vat_rows, ord).nota
        part_ocr == IF t.ocr_used THEN <<"OCR">> ELSE <<>>
        part_tbl == IF ~am.pct_IVA.ok /\ Truthy(am.importe_base) /\ Truthy(am.IVA)
                       /\ nota_tbl # NoNote
                    THEN <<nota_tbl>> ELSE <<>>
        part_nv  == IF brand # NoneStr /\ cif = NoneStr
                    THEN <<NoteNotVisible(brand)>> ELSE <<>>
        part_cat == IF brand # NoneStr /\ cif # NoneStr
                       /\ cif \notin KNOWN_VATS_BY_BRAND[brand]
                    THEN <<NoteNotInCatalog(cif, brand)>> ELSE <<>>
    IN  << am @@
           [fecha_factura  |-> t.date,
            numero_factura |-> IF t.number # NoneStr THEN t.number ELSE t.stem,
            empresa |-> IF who.company # NoneStr
                        THEN strip_accents_punct(who.company) ELSE NoneStr,
            CIF     |-> norm_cif(cif),
            Notas   |-> part_ocr \o part_tbl \o part_nv \o part_cat,
            parser  |-> "main.parse_amounts_generic"] >>

\* the vendors of the sample texts: the keywords of the parsers and the
\* override patterns found in the text, its tax IDs, its company line
SampleVendors ==
    { [kw |-> {}, marks |-> {}, vats |-> <<>>, line |-> NoneStr],
      [kw |-> {}, marks |-> {}, vats |-> <<"B12345678">>, line |-> "ACME SL"],
      [kw |-> {"ARAGONESA DE SERVICIOS ITV"},
       marks |-> {"ARAGONESA\\s+DE\\s+SERVICIOS\\s+ITV"},
       vats |-> <<>>, line |-> "ARAGONESA DE SERVICIOS ITV"],
      [kw |-> {"ALCAMPO S.A"}, marks |-> {"\\bALCAMPO\\b"},
       vats |-> <<"B12345678">>, line |-> "ALCAMPO S.A"],
      [kw |-> {"INDUSAN"},
       marks |-> {"INDUSTRIAS\\s+REUNIDAS\\s+SANITARIAS|INDUSAN"},
       vats |-> <<>>, line |-> NoneStr],
      [kw |-> {}, marks |-> {"AMAZON"}, vats |-> <<>>, line |-> NoneStr],
      [kw |-> {}, marks |-> {"AMAZON"}, vats |-> <<"B12345678">>, line |-> NoneStr],
      [kw |-> {"O2"}, marks |-> {"AMAZON"}, vats |-> <<"ESW0264006H">>,
       line |-> "ACME SL"] }

\* ------------------------------------------------- the invoice date ---
\* A numeric date written in the text: date is <<year, month, day>> as
\* written (not yet checked against the calendar), sep the separator, padded
\* whether day and month are written with a leading zero.
DateToken(y, m, d, sep, padded) ==
    [date |-> <<y, m, d>>, sep |-> sep, padded |-> padded]

\* the numeric dates of the sample texts: 05/01/2024, 5/1/2024, 05-01-2024,
\* 28/12/2023, 28-12-2023, 01/01/2017, 15/13/2024, 31/02/2024
DateTokens ==
    { DateToken(2024, 1, 5, "/", TRUE), DateToken(2024, 1, 5, "/", FALSE),
      DateToken(2024, 1, 5, "-", TRUE), DateToken(2023, 12, 28, "/", FALSE),
      DateToken(2023, 12, 28, "-", FALSE), DateToken(2017, 1, 1, "/", TRUE),
      DateToken(2024, 13, 15, "/", FALSE), DateToken(2024, 2, 31, "/", TRUE) }

\* the dates "D de <month> de YYYY" of the sample texts: 5 de enero de 2024,
\* 1 de enero de 2017
WordDates == {NoMatch, <<2024, 1, 5>>, <<2017, 1, 1>>}

\* providers/common.py:149, 165  the floor year of a date
MIN_YEAR == 2018

\* datetime.strptime / datetime(): the date of the calendar, or the
\* exception that the callers turn into "no date"
strptime(f) == IF to_datetime(f) # NaT THEN f ELSE NoDate

\* day and month of the token are written with two digits each
TwoDigits(k) == (k.padded \/ k.date[3] >= 10) /\ (k.padded \/ k.date[2] >= 10)

\* re.search: the leftmost of the matches of a pattern, as a sequence of
\* length 0 or 1
search(hits) == IF hits = <<>> THEN <<>> ELSE <<hits[1]>>

\* main.py:475  "%d/%m/%y" on the first two digits of the year
TwoDigitYear(y) ==
    LET yy == y \div 100
    IN  IF yy <= 68 THEN 2000 + yy ELSE 1900 + yy

\* main.py:471-501  parse_date_text of main.py.  t.dates are the numeric
\* dates of the text in the order written, t.label the index of the one
\* that follows the label "Fecha Factura" (0: no label), t.word the first
\* date written with the name of the month.
parse_date_text(t) ==
    LET m1 == search(SelectSeq(t.dates, LAMBDA k : k.sep = "/" /\ TwoDigits(k)))
        m2 == search(SelectSeq(t.dates, LAMBDA k : k.sep = "-" /\ TwoDigits(k)))
        m3 == search(SelectSeq(t.dates, LAMBDA k : k.sep = "/"))
        r1 == IF m1 # <<>> THEN strptime(m1[1].date) ELSE NoDate
        r2 == IF m2 # <<>> THEN strptime(m2[1].date) ELSE NoDate
        r3 == IF m3 # <<>>
              THEN strptime(<<TwoDigitYear(m3[1].date[1]), m3[1].date[2], m3[1].date[3]>>)
              ELSE NoDate
        r4 == IF t.word # NoMatch THEN strptime(t.word) ELSE NoDate
        r5 == IF t.label # 0 /\ TwoDigits(t.dates[t.label])
              THEN strptime(t.dates[t.label].date) ELSE NoDate
    IN  IF r1 # NoDate THEN r1
        ELSE IF r2 # NoDate THEN r2
        ELSE IF r3 # NoDate THEN r3
        ELSE IF r4 # NoDate THEN r4
        ELSE r5

\* date a is later than date b
Later(a, b) == LexLess(b, a)

\* providers/common.py:153-157  the first of the candidates sorted by
\* (year, month, day), latest first
MostRecent(cands) ==
    cands[CHOOSE i \in 1..Len(cands) :
             \A j \in 1..Len(cands) : ~Later(cands[j], cands[i])]

\* providers/common.py:126-170  parse_date_text of providers/common.py
common_parse_date_text(t) ==
    LET lab   == IF t.label # 0 /\ t.dates[t.label].date[2] \in 1..12
                 THEN strptime(t.dates[t.label].date) ELSE NoDate
        Valid(k) == /\ k.date[2] \in 1..12
                    /\ k.date[1] >= MIN_YEAR
                    /\ strptime(k.date) # NoDate
        slash == SelectSeq(t.dates, LAMBDA k : k.sep = "/" /\ Valid(k))
        dash  == SelectSeq(t.dates, LAMBDA k : k.sep = "-" /\ Valid(k))
        both  == slash \o dash
        cands == [i \in 1..Len(both) |-> both[i].date]
        word  == IF t.word # NoMatch /\ t.word[1] >= MIN_YEAR
                 THEN strptime(t.word) ELSE NoDate
    IN  IF lab # NoDate THEN lab
        ELSE IF cands # <<>> THEN MostRecent(cands)
        ELSE word

\* the texts handed to the two parse_date_text: the label "Fecha Factura"
\* stands before a date written with "/"
DateInputs(f) ==
    {t \in [fn : {f},
            dates : UNION {[1..k -> DateTokens] : k \in 0..MaxDates},
            label : 0..MaxDates,
            word : WordDates] :
        t.label # 0 => t.label <= Len(t.dates) /\ t.dates[t.label].sep = "/"}

\* ------------------------------------------- the other pure functions ---
\* floats handed to to_decimal_pct
PctFloats == {Dec(0, 0), Dec(5, 1), Dec(1, 0), Dec(21, 2), Dec(4, 0), Dec(21, 0),
              Dec(105, 1), Dec(1234567, 7)}

\* the VAT tables of the sample texts
VatTables == UNION {[1..k -> VatRowSet] : k \in 0..MaxVatRows}

\* what the patterns of the two generic parsers capture in a text; a text with
\* a VAT row holds a "NN%"
GenericInputs(f) ==
    {c \in [fn : {f}, vat_rows : VatTables, pct : PctCaptures,
             base : {NoMatch, S0, S100}, iva : {NoMatch, S21, S50},
             total : {NoMatch, S21, S121}] :
        f = "GenericParser.parse" /\ c.vat_rows # <<>> => c.pct # NoMatch}

\* what is found in the sample texts besides vendor and amounts: the invoice
\* number and date, the file stem, whether the text came from the OCR
SampleHeads ==
    {x \in [fn : {"extract_records_from_pdf_inner"},
            number : {NoneStr, "2024/123"}, date : {NoDate, <<2024, 1, 5>>},
            stem : {"factura_01"}, ocr_used : BOOLEAN] :
        (x.number = NoneStr) = (x.date = NoDate)}

\* the amounts "BASE IMPONIBLE 100,00 / IVA 21,00 / TOTAL FACTURA 121,00"
ScenarioAmounts ==
    [vat_rows |-> <<>>, pct |-> NoMatch, base |-> S100, iva |-> S21, total |-> S121]

\* the amounts of the sample texts that hold a VAT table or lack a label
TableAmounts ==
    [vat_rows : VatTables, pct : {NoMatch, <<"2", "1">>}, base : {NoMatch, S100},
     iva : {NoMatch}, total : {NoMatch, S121}]

\* the texts handed to the extraction: what the patterns of find_company and
\* of parse_amounts_generic capture in them, and what else is found
ExtractInputs ==
    {v @@ ScenarioAmounts @@ h : v \in SampleVendors, h \in SampleHeads}
    \cup {v @@ c @@ h : v \in {w \in SampleVendors : w.marks = {} /\ w.vats = <<>>},
                        c \in TableAmounts,
                        h \in {x \in SampleHeads : ~x.ocr_used}}

FnInputs ==
    [fn : {"to_decimal_pct"}, s : NumStrings]
    \cup [fn : {"to_decimal_pct_float"}, v : PctFloats]
    \cup [fn : {"AlcampoParser.parse"}, mbase : Captures, miva : Captures,
          mtotal : Captures, mbase2 : {NoMatch, S100}, miva2 : {NoMatch, S21},
          mtot2 : {NoMatch, S121}]
    \cup [fn : {"ItvParser.parse"}, mbase : Captures, mtasa : Captures,
          mtotal : Captures]
    \cup [fn : {"O2Parser.parse"}, mbase : Captures, mtotal : Captures]
    \cup [fn : {"IndusanParser.parse"}, mbase : Captures]
    \cup GenericInputs("GenericParser.parse")
    \cup GenericInputs("parse_amounts_generic")
    \cup [fn : {"find_company"}, marks : MarkSets, vats : VatLists,
          line : CompanyLines]
    \cup ExtractInputs
    \cup DateInputs("main.parse_date_text")
    \cup DateInputs("common.parse_date_text")

InitFn ==
    /\ args = NoRun
    /\ pc = "off"
    /\ count = 0
    /\ rows = <<>>
    /\ p = Unborn
    /\ q = EmptyQ
    /\ orphans = {}
    /\ waited = 0
    /\ written = FALSE
    /\ sleeps = <<>>
    /\ exported = <<>>
    /\ numPc = "off"
    /\ numIn = <<>>
    /\ numOut = None
    /\ fnPc = "call"
    /\ fnIn \in FnInputs
    /\ fnOut = None

\* the call returns v
Return(v) ==
    /\ fnOut' = v
    /\ fnPc' = "returned"
    /\ UNCHANGED fnIn
    /\ UNCHANGED <<numPc, numIn, numOut>>
    /\ UNCHANGED drv_vars

\* main.py:239-252  one call of to_decimal_pct with a string
ToDecimalPctCall ==
    /\ fnPc = "call"
    /\ fnIn.fn = "to_decimal_pct"
    /\ Return(to_decimal_pct(fnIn.s))

\* main.py:242-243  one call of to_decimal_pct with a float
ToDecimalPctFloatCall ==
    /\ fnPc = "call"
    /\ fnIn.fn = "to_decimal_pct_float"
    /\ Return(to_decimal_pct_float(fnIn.v))

\* the call of function f is due
Calling(f) == fnPc = "call" /\ fnIn.fn = f

\* providers/alcampo.py:22-71
AlcampoParseCall ==
    /\ Calling("AlcampoParser.parse")
    /\ Return(AlcampoParse(Numbers(fnIn)))

\* providers/itv.py:21-94
ItvParseCall ==
    /\ Calling("ItvParser.parse")
    /\ Return(ItvParse(Numbers(fnIn)))

\* providers/o2.py:22-47
O2ParseCall ==
    /\ Calling("O2Parser.parse")
    /\ Return(O2Parse(Numbers(fnIn)))

\* providers/indusan.py:20-44
IndusanParseCall ==
    /\ Calling("IndusanParser.parse")
    /\ Return(IndusanParse(Numbers(fnIn)))

\* providers/generic.py:95-156
GenericParseCall ==
    /\ Calling("GenericParser.parse")
    /\ Return(GenericParse(Numbers(fnIn)))

\* main.py:569-607  one call of parse_amounts_generic, the set of the note's
\* labels being iterated in some order
ParseAmountsGenericCall ==
    /\ Calling("parse_amounts_generic")
    /\ LET c == Numbers(fnIn)
       IN  \E ord \in Orders(LabelSet(RatesOf(c.vat_rows))) :
              Return(Ok(<<parse_amounts_generic(c, ord)>>))

\* main.py:386-458
FindCompanyCall ==
    /\ Calling("find_company")
    /\ Return(find_company(fnIn))

\* main.py:645-695  the extraction runs twice on the same text, each run
\* iterating the set of rate labels in an order of its own
ExtractCall ==
    /\ Calling("extract_records_from_pdf_inner")
    /\ LET t == Numbers(fnIn)
       IN  \E ord1, ord2 \in Orders(LabelSet(RatesOf(t.vat_rows))) :
              Return([raised |-> "", rows |-> extract_fields(t, ord1),
                      again |-> extract_fields(t, ord2), orders |-> <<ord1, ord2>>])

\* main.py:471-501
ParseDateTextCall ==
    /\ Calling("main.parse_date_text")
    /\ Return(parse_date_text(fnIn))

\* providers/common.py:126-170
CommonParseDateTextCall ==
    /\ Calling("common.parse_date_text")
    /\ Return(common_parse_date_text(fnIn))

NextFn ==
    \/ ToDecimalPctCall
    \/ ToDecimalPctFloatCall
    \/ AlcampoParseCall
    \/ ItvParseCall
    \/ O2ParseCall
    \/ IndusanParseCall
    \/ GenericParseCall
    \/ ParseAmountsGenericCall
    \/ FindCompanyCall
    \/ ExtractCall
    \/ ParseDateTextCall
    \/ CommonParseDateTextCall

SpecFn == InitFn /\ [][NextFn]_vars

\* ================================================================ claims ===
Range(f) == {f[i] : i \in DOMAIN f}
LastRow == rows[Len(rows)]
\* indices of the rows made for PDF d
RowsOf(d) == {i \in 1..Len(rows) : rows[i].doc = d}
TimeoutNote == "Timeout " \o ToString(timeout_s) \o "s"
IsTimeoutRow(r) == r.numero_factura = "name" /\ r.Notas = <<TimeoutNote>>
IsNoDataRow(r) == r.numero_factura = "name" /\ r.Notas = <<"Sin datos del hijo">>
IsErrorRow(r) == r.numero_factura = "name" /\ r.Notas = <<"Error: e">>
\* a row built by extract_records_from_pdf_inner
IsExtractedRow(r) == r.numero_factura \in {"stem", "number"}
\* main is inside a call of run_child_extract
InCall == pc \in {"join", "is_alive", "terminate", "grace", "read"}
\* main found the child alive after the timeout
OnTimeoutPath == pc \in {"terminate", "grace"}
LoopFinished == pc \in {"export", "done"}
RunEnded == pc \in {"sysexit", "crashed", "done"}
\* number of child processes alive
NumAlive == Cardinality(orphans) + (IF Alive THEN 1 ELSE 0)

\* C1: once main's loop has finished, the aggregated rows hold at least one row
\* for every PDF of the input, whatever happened to it, also when the call of
\* run_child_extract itself raised.
C1_EveryPdfHasARow ==
    LoopFinished => \A d \in 1..args.npdfs : RowsOf(d) # {}

\* C2: a child still alive after the timeout gives exactly one row, the timeout
\* note; main has then waited no longer than the timeout plus the grace join,
\* and it always leaves the call and is back in its loop.
C2_TimeoutRowAndProgress ==
    /\ [](waited <= timeout_s + GRACE_JOIN_S)
    /\ [](OnTimeoutPath => waited >= timeout_s)
    /\ [][pc = "is_alive" /\ pc' # "is_alive" /\ Alive => pc' = "terminate"]_vars
    /\ [][OnTimeoutPath /\ pc' \notin {"terminate", "grace"} =>
            /\ pc' = "throttle"
            /\ rows' = Append(rows, [doc |-> count, numero_factura |-> "name",
                                     Notas |-> <<TimeoutNote>>])]_vars
    /\ (InCall ~> pc = "throttle")

\* C2 witness: PDF 1 timed out after the full wait, its timeout row is the only
\* row, and main is about to start the child of PDF 2.
C2_Witness ==
    /\ pc = "spawn"
    /\ count = 2
    /\ waited = timeout_s + GRACE_JOIN_S
    /\ Len(rows) = 1
    /\ IsTimeoutRow(rows[1])
    /\ rows[1].doc = 1

\* C3: the rows of a child that timed out are never merged: the timeout row is
\* the only row of its PDF, and the call leaves the queue unread, also when the
\* child had put a result.
C3_TimedOutRowsNeverMerged ==
    /\ \A i \in 1..Len(rows) : IsTimeoutRow(rows[i]) => RowsOf(rows[i].doc) = {i}
    /\ \A i \in 1..Len(rows) : IsExtractedRow(rows[i]) \/ IsErrorRow(rows[i]) =>
            \A j \in RowsOf(rows[i].doc) : ~IsTimeoutRow(rows[j])

\* C3 witness: the call returned the timeout row while the child's result was
\* on the queue, which is left there.
C3_Witness ==
    /\ pc = "throttle"
    /\ q.kind = "json"
    /\ Len(rows) >= 1
    /\ IsTimeoutRow(LastRow)
    /\ LastRow.doc = count

\* C4 as claimed: at every point at most one child process is alive.
C4_AtMostOneChildAlive == NumAlive <= 1

\* C4 amended: a child alive beside the child of the current PDF is one that
\* main timed out (its PDF has the timeout row); main never leaves a child
\* alive in any other way.
C4_OnlyTimedOutChildrenOverlap ==
    /\ \A d \in orphans :
          /\ d <= count
          /\ \E i \in RowsOf(d) : IsTimeoutRow(rows[i])
    /\ (pc \notin {"join", "is_alive", "terminate", "grace"} => ~Alive)

\* C4 witness: the child of PDF 1 survived its termination and runs beside the
\* child of PDF 2.
C4_Witness ==
    /\ count = 2
    /\ Alive
    /\ 1 \in orphans

\* the call of run_child_extract for the current PDF has returned, and the
\* extraction of its child had raised
ReturnedAfterRaise == pc = "throttle" /\ p.raised

C6_NoDataRow ==
    /\ [](pc = "read" => ~Alive)
    /\ [][pc = "read" /\ q.kind # "json" /\ pc' # "read" =>
            /\ pc' = "throttle"
            /\ rows' = Append(rows, [doc |-> count, numero_factura |-> "name",
                                     Notas |-> <<"Sin datos del hijo">>])]_vars
    /\ [](pc = "throttle" => ENABLED Throttle)

\* C6 witness: the child of PDF 1 died before the timeout without a result,
\* its no-data row is recorded and main is about to start the child of PDF 2.
C6_Witness ==
    /\ pc = "spawn"
    /\ count = 2
    /\ waited = 0
    /\ Len(rows) = 1
    /\ IsNoDataRow(rows[1])
    /\ rows[1].doc = 1

\* C7: with a missing input path, one that is no directory, or no PDF in it, the
\* run ends in SystemExit before any child is started and before the output is
\* written; in every other case the run ends by writing the output file (stated
\* here for the runs in which every PDF handled so far got its row).
C7_ExitEarlyOrWrite ==
    LET nothing_to_do == BadInputDir \/ args.npdfs = 0
    IN  /\ (nothing_to_do =>
              ~written /\ p = Unborn /\ orphans = {} /\ rows = <<>> /\ pc # "crashed")
        /\ (pc = "sysexit" => nothing_to_do)
        /\ (RunEnded /\ ~nothing_to_do /\ (\A d \in 1..count : RowsOf(d) # {}) =>
              written)

\* C8: when the native text is shorter than 80 characters the extraction calls
\* the OCR and every row it returns carries the OCR note, whatever the OCR gave.
C8_ShortTextGivesOcrNote ==
    p.native_len >= 0 /\ p.native_len < OCR_MIN_TEXT_LEN =>
        /\ p.ocr_called
        /\ \A i \in 1..Len(q.data) :
              IsExtractedRow(q.data[i]) => "OCR" \in Range(q.data[i].Notas)
        /\ \A i \in RowsOf(count) :
              IsExtractedRow(rows[i]) => "OCR" \in Range(rows[i].Notas)

\* C8 witness: a PDF of 10 native characters whose OCR gave nothing; its
\* extracted row is recorded.
C8_Witness ==
    /\ pc = "throttle"
    /\ p.native_len = 10
    /\ p.text_len = 0
    /\ ~p.raised
    /\ RowsOf(count) # {}
    /\ IsExtractedRow(LastRow)
    /\ LastRow.doc = count

\* C9: in a run configured with OCR off no extraction calls the OCR.
C9_OcrOffNeverCallsOcr ==
    args.ocr = "off" => ~p.ocr_called

\* the separator that the claim of C10 takes as the decimal mark
LastIndexOf(st, ch) ==
    IF Contains(st, ch)
    THEN CHOOSE i \in 1..Len(st) :
            st[i] = ch /\ \A j \in (i + 1)..Len(st) : st[j] # ch
    ELSE 0

\* the number the claim of C10 assigns to a string
DecimalMarkByPosition(s) ==
    LET st == StripSymbols(s)
    IN  IF Contains(st, ",") /\ Contains(st, ".")
        THEN IF LastIndexOf(st, ",") > LastIndexOf(st, ".")
             THEN float(ReplaceChar(Remove(st, "."), ",", "."))
             ELSE float(Remove(st, ","))
        ELSE IF Contains(st, ",")
             THEN float(ReplaceChar(st, ",", "."))
             ELSE float(st)

\* a numeric string: groups of digits with single "," or "." marks between them
IsNumericString(s) ==
    /\ Len(s) >= 1
    /\ s[1] \in Digits
    /\ s[Len(s)] \in Digits
    /\ \A i \in 1..Len(s) : s[i] \in Digits \cup {",", "."}
    /\ \A i \in 1..(Len(s) - 1) : s[i] \in Digits \/ s[i + 1] \in Digits

\* C10: for a numeric string with both "," and ".", the one occurring last is
\* the decimal mark and the other is dropped; with only ",", the comma is the
\* decimal mark.
C10_LastSeparatorIsDecimal ==
    numPc = "returned" /\ IsNumericString(numIn) /\ Contains(numIn, ",") =>
        numOut = DecimalMarkByPosition(numIn)

\* a number written with digits and at most one decimal mark, and the number
\* it denotes
IsPlainNumber(s) ==
    /\ Len(s) >= 1
    /\ \A i \in 1..Len(s) : s[i] \in Digits \cup {",", "."}
    /\ \E i \in 1..Len(s) : s[i] \in Digits
    /\ Cardinality({i \in 1..Len(s) : s[i] \in {",", "."}}) <= 1
ValueOf(s) == float(ReplaceChar(s, ",", "."))

\* the call of the harness for function f has returned
Returned(f) == fnPc = "returned" /\ fnIn.fn = f

\* C11: to_decimal_pct gives N/100 for every string "N%", and for a float v it
\* gives v/100 when v > 1.0 and v when v <= 1.0 (to six decimals).
C11_PercentIsFraction ==
    /\ (Returned("to_decimal_pct") /\ Len(fnIn.s) >= 2 /\ fnIn.s[Len(fnIn.s)] = "%"
            /\ IsPlainNumber(SubSeq(fnIn.s, 1, Len(fnIn.s) - 1)) =>
          fnOut = round(Div100(ValueOf(SubSeq(fnIn.s, 1, Len(fnIn.s) - 1))), 6))
    /\ (Returned("to_decimal_pct_float") =>
          fnOut = IF Gt(fnIn.v, One) THEN round(Div100(fnIn.v), 6) ELSE round(fnIn.v, 6))

\* the functions that return the rows of a document
RowFunctions ==
    {"AlcampoParser.parse", "ItvParser.parse", "O2Parser.parse", "IndusanParser.parse",
     "GenericParser.parse", "parse_amounts_generic"}
\* a call that returned rows, and those rows
ReturnedRows == fnPc = "returned" /\ fnIn.fn \in RowFunctions /\ fnOut.raised = ""
\* 0 <= r <= 1
IsFraction(r) == r.ok /\ ~Gt(r, One)

\* C12: in every row of every parser and of the Orchestrator the tax rate is
\* absent or a fraction between 0 and 1, also when derived as tax / base.
C12_RateIsFraction ==
    ReturnedRows =>
        \A i \in 1..Len(fnOut.rows) :
            fnOut.rows[i].pct_IVA.ok => IsFraction(fnOut.rows[i].pct_IVA)

\* C13: in every returned row with base and tax present whose total was not
\* read in the text but derived, the total is round(base + tax, 2); the rows
\* of main.py's own parsing have a total whenever base and tax are present.
C13_DerivedTotalIsSum ==
    ReturnedRows =>
        \A i \in 1..Len(fnOut.rows) :
            LET r == fnOut.rows[i]
            IN  r.importe_base.ok /\ r.IVA.ok =>
                  /\ (r.total_derived =>
                        r.importe_total = round(Add(r.importe_base, r.IVA), 2))
                  /\ (fnIn.fn = "parse_amounts_generic" => r.importe_total.ok)

\* abs(rate - iva / base) < 0.01 for base > 0
RateAgrees(rate, base, iva) ==
    LET e   == Max(Max(rate.e + base.e, iva.e), base.e + 2)
        rb  == rate.m * base.m * Pow10(e - rate.e - base.e)
        i   == iva.m * Pow10(e - iva.e)
        tol == base.m * Pow10(e - base.e - 2)
    IN  (IF rb >= i THEN rb - i ELSE i - rb) < tol

\* C14: in every returned row with rate, base and tax all present the rate
\* agrees with the amounts: abs(rate - tax / base) < 0.01.
C14_RateAgreesWithAmounts ==
    ReturnedRows =>
        \A i \in 1..Len(fnOut.rows) :
            LET r == fnOut.rows[i]
            IN  r.pct_IVA.ok /\ Truthy(r.importe_base) /\ r.IVA.ok =>
                  RateAgrees(r.pct_IVA, r.importe_base, r.IVA)

\* the text of the scenario of C16, as the two generic parsers see it
IsScenarioText(c) ==
    /\ c.vat_rows = <<>>
    /\ c.pct = NoMatch
    /\ c.base = S100
    /\ c.iva = S21
    /\ c.total = S121

\* C16: on the text "BASE IMPONIBLE 100,00 ... IVA 21,00 ... TOTAL FACTURA
\* 121,00" the generic parser returns one row with base 100.00, tax 21.00,
\* total 121.00 and a rate within 0.01 of 0.21.
C16_ScenarioRow ==
    fnPc = "returned" /\ fnIn.fn \in {"GenericParser.parse", "parse_amounts_generic"}
        /\ IsScenarioText(fnIn) =>
        /\ fnOut.raised = ""
        /\ Len(fnOut.rows) = 1
        /\ fnOut.rows[1].importe_base = Dec(100, 0)
        /\ fnOut.rows[1].IVA = Dec(21, 0)
        /\ fnOut.rows[1].importe_total = Dec(121, 0)
        /\ fnOut.rows[1].pct_IVA.ok
        /\ RateAgrees(fnOut.rows[1].pct_IVA, Dec(100, 0), Dec(21, 0))

\* C15: on a text that matches an override and holds another tax ID,
\* find_company returns the canonical name of the matched override; the ID
\* is the override's forced ID when it has one, and the ID selected from the
\* text when the forced ID is None.
C15_OverridePrecedence ==
    Returned("find_company") =>
        \A i \in 1..Len(VENDOR_OVERRIDES) :
            LET o == VENDOR_OVERRIDES[i]
            IN  /\ o.pat \in fnIn.marks
                /\ \A j \in 1..(i - 1) : VENDOR_OVERRIDES[j].pat \notin fnIn.marks
                /\ \E k \in 1..Len(fnIn.vats) : fnIn.vats[k] # o.cif_fix
                =>
                /\ fnOut.company = o.name
                /\ o.cif_fix # NoneStr => fnOut.supplier_vat = o.cif_fix
                /\ o.cif_fix = NoneStr =>
                      /\ fnOut.supplier_vat = SelectVat(fnIn.marks, fnIn.vats)
                      /\ \E k \in 1..Len(fnIn.vats) :
                            fnOut.supplier_vat = fnIn.vats[k]

\* a text of a vendor with a forced ID that holds another tax ID has been
\* resolved to the override's name and forced ID
C15_Witness ==
    /\ Returned("find_company")
    /\ fnIn.marks = {"LEROY\\s+MERLIN"}
    /\ fnIn.vats = <<"B12345678">>
    /\ fnOut.supplier_vat = "B84818442"
    /\ fnOut.company = "LEROY MERLIN ESPANA, S.L.U."

\* C17: the extraction of a text uses the first parser of PROVIDERS whose
\* detect is true (the generic one is last and always detects), and returns
\* at least one row.
C17_FirstDetectingParserIsUsed ==
    Returned("extract_records_from_pdf_inner") =>
        /\ detect(PROVIDERS[Len(PROVIDERS)], fnIn.kw)
        /\ PROVIDERS[Len(PROVIDERS)].name = "GENERIC"
        /\ Len(fnOut.rows) >= 1
        /\ \A i \in 1..Len(fnOut.rows) :
              fnOut.rows[i].parser = FirstDetecting(fnIn.kw)

\* C18: two runs of the extraction on the same text and configuration return
\* the same list of rows, whatever order each run iterates its sets in.
C18_ExtractionIsDeterministic ==
    Returned("extract_records_from_pdf_inner") => fnOut.rows = fnOut.again

\* two runs that iterated the rate labels in different orders have returned
\* a row with the note on several rates
C18_Witness ==
    /\ Returned("extract_records_from_pdf_inner")
    /\ fnOut.orders[1] # fnOut.orders[2]
    /\ fnOut.rows[1].Notas = <<"IVAs: 10%+21%">>
    /\ fnOut.again[1].Notas = <<"IVAs: 10%+21%">>

IsDated(r) == to_datetime(DateOf(r)) # NaT

\* row a may stand right before row b in a table sorted by (date, number)
InOrder(a, b) ==
    IF IsDated(a) /\ IsDated(b) /\ DateOf(a) # DateOf(b)
    THEN LexLess(DateOf(a), DateOf(b))
    ELSE IF IsDated(a) # IsDated(b)
    THEN IsDated(a)
    ELSE ~LexLess(NumberText(b), NumberText(a))

\* how often row r occurs in the list rs
Occurrences(r, rs) == Cardinality({i \in 1..Len(rs) : rs[i] = r})

\* C19: the exported table holds the rows collected, each as often as it was
\* collected, in ascending order of (date, number): of two adjacent rows the
\* first has the earlier date or, with equal dates, a number not larger; the
\* rows without a date come after all dated rows (among themselves by number).
C19_ExportIsSorted ==
    pc = "done" =>
        /\ \A i \in 1..(Len(exported) - 1) : InOrder(exported[i], exported[i + 1])
        /\ Len(exported) = Len(rows)
        /\ \A i \in 1..Len(rows) :
              Occurrences(rows[i], exported) = Occurrences(rows[i], rows)

\* a table was exported whose rows were collected in another order, an
\* undated row before a dated one
C19_Witness ==
    /\ pc = "done"
    /\ exported # rows
    /\ \E i, j \in 1..Len(rows) : i < j /\ ~IsDated(rows[i]) /\ IsDated(rows[j])

\* the number of documents whose turn of the loop is over, pause included
TurnsOver == IF pc \in {"loop", "export", "done"} \/ count = 0 THEN count ELSE count - 1

\* main paused after the k-th document
PausedAfter(k) == \E i \in 1..Len(sleeps) : sleeps[i] = k

\* a throttle interval N > 0 and a throttle duration > 0 were given
Throttling == args.throttle[1] > 0 /\ args.throttle[2] > 0

\* C20: with a throttle interval N > 0 and a duration > 0, main has paused
\* after the k-th document exactly for the multiples k of N, whatever became
\* of the documents, once per such k; it pauses only at the end of the k-th
\* turn of the loop, when the call of run_child_extract for document k is
\* over and before the count moves on to document k+1.
C20_PauseAfterEveryNth ==
    /\ [](Throttling =>
            /\ \A k \in 1..TurnsOver : PausedAfter(k) <=> k % args.throttle[1] = 0
            /\ \A i \in 1..Len(sleeps) : sleeps[i] \in 1..TurnsOver
            /\ \A i, j \in 1..Len(sleeps) : i < j => sleeps[i] < sleeps[j])
    /\ [][Throttling /\ sleeps' # sleeps =>
            /\ pc = "throttle" /\ pc' = "loop"
            /\ sleeps' = Append(sleeps, count)
            /\ count' = count /\ rows' = rows /\ p' = p]_vars

\* with N = 2 the run paused once, after the second document, the first
\* document having timed out
C20_Witness ==
    /\ args.throttle = <<2, 800>>
    /\ sleeps = <<2>>
    /\ \E i \in 1..Len(rows) : rows[i].doc = 1 /\ IsTimeoutRow(rows[i])

\* C21: every row collected has, as its invoice number, the number found in
\* the document or else the stem of the file name (the name without ".pdf"):
\* the rows of the extraction and the rows main substitutes on an error, a
\* timeout and a missing result alike.
C21_NumberOrStem ==
    \A i \in 1..Len(rows) :
        NumberText(rows[i]) \in {InvoiceNumber(rows[i].doc), Stem(rows[i].doc)}

\* the loop over the documents is over, by its end or by an exception
LoopLeft == pc \in {"export", "done", "crashed"}

\* C22: main starts exactly one child per document, in the order of the
\* sorted paths: the count moves from one document to the next at the head
\* of the loop only, every turn of the loop starts the child of its document
\* and a child is started nowhere else; the rows of a document are appended
\* only when its child has ended or its timeout has elapsed; main leaves the
\* loop only after the last document.
C22_OneChildPerDocument ==
    /\ [][count' # count => pc = "loop" /\ pc' = "spawn" /\ count' = count + 1]_vars
    /\ [][pc = "spawn" => pc' = "join" /\ p'.st = "running"]_vars
    /\ [][p.st # "running" /\ p'.st = "running" => pc = "spawn"]_vars
    /\ [][rows' # rows /\ pc # "glob" => ~Alive \/ waited >= timeout_s]_vars
    /\ [](LoopLeft => count = args.npdfs)

\* C23: a child that has put its result while the timeout had not elapsed,
\* and did not die, has its rows returned by run_child_extract: the row
\* recorded for the document is neither the timeout row nor the no-data row,
\* and what main reads from the queue is appended as the child put it.
C23_ResultPutInTimeIsReturned ==
    /\ \A d \in Docs :
          [](count = d /\ pc = "join" /\ waited = 0 /\ p.st = "flushing" /\ q.kind = "json" =>
               [](count = d /\ pc = "throttle" /\ p.st # "dead" =>
                    /\ RowsOf(d) # {}
                    /\ ~IsTimeoutRow(LastRow)
                    /\ ~IsNoDataRow(LastRow)))
    /\ [][pc = "read" /\ q.kind = "json" /\ pc' = "throttle" => rows' = rows \o q.data]_vars

\* providers/generic.py:117-123  the candidate for the tax amount: the sum of
\* the table rows or else the value found by the label
IvaCandidate(c) == IF IvaTbl(c.vat_rows).ok THEN IvaTbl(c.vat_rows) ELSE c.iva

\* C24: when the candidate for the tax amount is an integer-valued 4, 10 or
\* 21, the generic parser returns that value divided by 100 as the rate and
\* a tax amount derived again from the other fields, not an absent one
\* (wherever a base is there to derive it from).
C24_MisreadRateIsRederived ==
    Returned("GenericParser.parse") /\ MisreadRate(IvaCandidate(Numbers(fnIn))) =>
        /\ fnOut.rows[1].pct_IVA = Dec(int(IvaCandidate(Numbers(fnIn))), 2)
        /\ (fnOut.rows[1].importe_base.ok => fnOut.rows[1].IVA.ok)

\* find_company chose the ID by the shape heuristic: no override forces an
\* ID and no candidate is in the catalog of the brand detected
ChosenByShape ==
    /\ Returned("find_company")
    /\ fnIn.vats # <<>>
    /\ LET o == FirstOverride(fnIn.marks)
       IN  o = 0 \/ VENDOR_OVERRIDES[o].cif_fix = NoneStr
    /\ LET brand == detect_brand(fnIn.marks)
       IN  brand # NoneStr =>
              \A k \in 1..Len(fnIn.vats) : fnIn.vats[k] \notin KNOWN_VATS_BY_BRAND[brand]

\* C25: when the ID is chosen by shape, a candidate of the local (Spanish)
\* shape is chosen whenever there is one, and the ID chosen is the first of
\* the candidates of its rank (local shape, or generic pattern only).
C25_LocalShapeOutranksGeneric ==
    ChosenByShape =>
        LET vats   == fnIn.vats
            chosen == fnOut.supplier_vat
            Local(v) == v \in LocalShapeIds
        IN  /\ \E k \in 1..Len(vats) : vats[k] = chosen
            /\ (\E k \in 1..Len(vats) : Local(vats[k])) => Local(chosen)
            /\ \A k \in 1..Len(vats) :
                  vats[k] = chosen =>
                      \A j \in 1..(k - 1) : Local(vats[j]) # Local(chosen)

\* the note n is one of the notes of row r
HasNote(r, n) == \E i \in 1..Len(r.Notas) : r.Notas[i] = n

\* C26: for a text in which a multi-ID brand is detected, the row has the
\* note "ID not visible" when no catalog ID of the brand is among the IDs of
\* the text, the note "does not match catalog" when the resolved ID is there
\* but not in the catalog, and neither note when the resolved ID is in the
\* catalog.
C26_BrandNotes ==
    Returned("extract_records_from_pdf_inner") /\ detect_brand(fnIn.marks) # NoneStr =>
        LET brand   == detect_brand(fnIn.marks)
            catalog == KNOWN_VATS_BY_BRAND[brand]
            row     == fnOut.rows[1]
            visible == \E k \in 1..Len(fnIn.vats) : fnIn.vats[k] \in catalog
        IN  /\ ~visible => HasNote(row, NoteNotVisible(brand))
            /\ row.CIF # NoneStr /\ row.CIF \notin catalog =>
                  HasNote(row, NoteNotInCatalog(row.CIF, brand))
            /\ row.CIF \in catalog =>
                  /\ ~HasNote(row, NoteNotVisible(brand))
                  /\ ~HasNote(row, NoteNotInCatalog(row.CIF, brand))

\* C27: whenever the VAT rows matched in the text show more than one rate,
\* the row returned has the note that lists the rates found, with or without
\* a rate label in the text and whatever base and tax amount are.
C27_MultiRateNote ==
    Returned("extract_records_from_pdf_inner")
        /\ Cardinality(RateSet(RatesOf(Numbers(fnIn).vat_rows))) > 1 =>
        \E ord \in Orders(LabelSet(RatesOf(Numbers(fnIn).vat_rows))) :
            HasNote(fnOut.rows[1], "IVAs: " \o JoinLabels(sorted(ord)))

\* C28: when at least one VAT row is matched in the text, base and tax
\* amount of the result are the sums over the matched rows, rounded to two
\* decimals, whatever was found near a base or tax label.
C28_TableSumsTakePrecedence ==
    fnPc = "returned" /\ fnIn.fn \in {"GenericParser.parse", "parse_amounts_generic"}
        /\ ParsedVatRows(Numbers(fnIn).vat_rows) # <<>> =>
        /\ fnOut.rows[1].importe_base = BaseTbl(Numbers(fnIn).vat_rows)
        /\ fnOut.rows[1].IVA = IvaTbl(Numbers(fnIn).vat_rows)

\* the numeric dates of text t that are dates of the calendar with a year
\* not below the floor year
ValidDates(t) ==
    {t.dates[i].date : i \in {j \in 1..Len(t.dates) :
                                 /\ t.dates[j].date[1] >= MIN_YEAR
                                 /\ strptime(t.dates[j].date) # NoDate}}

\* the date after the label "Fecha Factura" in text t, when it is a date of
\* the calendar
LabelDate(t) == IF t.label # 0 THEN strptime(t.dates[t.label].date) ELSE NoDate

\* C29: parse_date_text returns the date of the label "Fecha Factura" when
\* the label gives one; otherwise the most recent of all numeric dates of
\* the text that are valid and not below the floor year, not the first one
\* found; a numeric date with an invalid month or with a year below the
\* floor is never returned.
C29_LabelThenMostRecent ==
    fnPc = "returned" /\ fnIn.fn \in {"main.parse_date_text", "common.parse_date_text"} =>
        IF LabelDate(fnIn) # NoDate THEN fnOut = LabelDate(fnIn)
        ELSE IF ValidDates(fnIn) # {}
        THEN /\ fnOut \in ValidDates(fnIn)
             /\ \A v \in ValidDates(fnIn) : ~Later(v, fnOut)
        ELSE fnOut = NoDate \/ (fnIn.word # NoMatch /\ fnOut = fnIn.word)

====
